---- MODULE Spec2Model ----
(***************************************************************************)
(* Background job engine of ableclub_monitor: execution history store,     *)
(* retry ladder, pause-on-failure circuit breaker, scheduler triggers and  *)
(* the keyword-matching notification job.                                  *)
(*                                                                         *)
(* Time is counted in clock units of ClockUnitDays days; the retention     *)
(* cutoff of cleanup_old_records is months_to_keep * 30 days.  A tick      *)
(* (minutes) and the 6-hour resume delay are far shorter than one unit:    *)
(* the clock only advances while no tick is in flight and no resume is     *)
(* pending.                                                                *)
(***************************************************************************)
EXTENDS Integers, Sequences, FiniteSets, TLC

\* ---------------------------------------------------------------- bounds
MaxRetrySetting == 2
MaxRecords == 3
MaxInFlight == 2
MaxClock == 2
MaxSettings == 2
MaxEvents == 2
MaxStoreRecords == 11
MaxOtherRecords == 1
MaxUsers == 2

\* ------------------------------------------------------ program constants
months_to_keep == 3
DaysPerMonth == 30
ClockUnitDays == months_to_keep * DaysPerMonth
FailureScanLimit == 10
SettingsPageLimit == 1000
UnprocessedPageLimit == 100
HTTP_OK == 200
HTTP_ERROR == 500

Jobs == {"corporate_events_scraper", "notification_processor"}
DefaultJobName == "corporate_events_scraper"
Triggers == {"interval", "immediate", "manual"}
Slots == Jobs \X Triggers
Errors == {"e1", "e2"}
Statuses == {"running", "success", "failed", "paused", "resumed"}

VARIABLES
    history,          \* job_execution_history rows, oldest first (created_at order)
    nextId,           \* next primary key
    now,              \* clock, in units of ClockUnitDays
    JOB_RETRY_MAX,    \* settings.JOB_RETRY_MAX
    is_running,       \* SchedulerManager.is_running
    jobs,             \* ids in the APScheduler job store
    paused_jobs,      \* SchedulerManager._paused_jobs
    resume_tasks,     \* _record_resume_event tasks created and not yet run
    pc,               \* per tick handler: "idle", "call" (unit of work awaited), "sleep"
    execution_record, \* per tick handler: id of its running record
    retry_count,      \* per tick handler: local retry_count
    calls,            \* per tick handler: invocations of the unit of work so far
    sleeps,           \* per tick handler: backoff waits so far
    waited,           \* per tick handler: seconds slept so far
    returns,          \* per tick handler: times the unit of work has returned
    failStreak,       \* per job: ticks ended failed in a row
    breakerPaused,    \* jobs paused by the breaker whose resume callback has not fired
    ev,               \* the operation that produced the current state
    notify_settings,  \* notify_settings rows with their user's keywords, by id
    scraped_events,   \* scraped_events rows, by id
    outbox,           \* notifications handed to the sender by the last matcher pass
    mark_requests,    \* event ids the last matcher pass asked to mark processed
    mev,              \* the last operation on the notification data
    processor_result  \* what _call_notification_processor handed to the tick

vars == <<history, nextId, now, JOB_RETRY_MAX, is_running, jobs, paused_jobs,
          resume_tasks, pc, execution_record, retry_count, calls, sleeps,
          waited, returns, failStreak, breakerPaused, ev, notify_settings,
          scraped_events,
          outbox, mark_requests, mev, processor_result>>

schedVars == <<is_running, jobs, paused_jobs, resume_tasks>>
slotVars == <<pc, execution_record, retry_count, calls, sleeps, waited,
              returns>>
engineVars == <<history, nextId, now, JOB_RETRY_MAX, is_running, jobs,
                paused_jobs, resume_tasks, pc, execution_record, retry_count,
                calls, sleeps, waited, returns, failStreak, breakerPaused,
                ev>>
matcherVars == <<notify_settings, scraped_events, outbox, mark_requests, mev,
                 processor_result>>

\* ------------------------------------------------- ExecutionHistoryStore
None == -1
NoRecord == [id |-> 0, job_name |-> "", status |-> "", created_at |-> 0,
             completed_at |-> None, error_message |-> "", retry_count |-> 0]

\* CRUDJobExecutionHistory.create
create(h, id, job_name, status, created_at, completed_at, err) ==
    Append(h, [id |-> id, job_name |-> job_name, status |-> status,
               created_at |-> created_at, completed_at |-> completed_at,
               error_message |-> err, retry_count |-> 0])

\* CRUDJobExecutionHistory.update: only the supplied fields of the row change
updateAlt(h, id, status, completed_at, err, rc) ==
    [i \in 1..Len(h) |->
        IF \E k \in 1..Len(h) : h[k].id = id /\ h[k].job_name = h[i].job_name
        THEN [h[i] EXCEPT !.status = status, !.completed_at = completed_at,
                          !.error_message = err, !.retry_count = rc]
        ELSE h[i]]
update(h, id, status, completed_at, err, rc) ==
    [i \in 1..Len(h) |->
        IF h[i].id = id
        THEN [h[i] EXCEPT !.status = status, !.completed_at = completed_at,
                          !.error_message = err, !.retry_count = rc]
        ELSE h[i]]

\* filter(job_name == ...).order_by(desc(created_at)): newest first
RECURSIVE Reverse(_)
Reverse(s) == IF s = <<>> THEN <<>> ELSE Append(Reverse(Tail(s)), Head(s))

get_by_job_name(h, job_name) ==
    Reverse(SelectSeq(h, LAMBDA r : r.job_name = job_name))

get_latest_execution(h, job_name) ==
    LET rs == get_by_job_name(h, job_name)
    IN IF rs = <<>> THEN NoRecord ELSE Head(rs)

is_job_pausedAlt(h, job_name) ==
    get_latest_execution(h, DefaultJobName).status = "paused"
is_job_paused(h, job_name) ==
    get_latest_execution(h, job_name).status = "paused"

RecentExecutionsAlt(rs) == rs
RecentExecutions(rs) ==
    IF Len(rs) > FailureScanLimit THEN SubSeq(rs, 1, FailureScanLimit) ELSE rs

RECURSIVE CountLeadingFailed(_)
CountLeadingFailed(rs) ==
    IF rs = <<>> THEN 0
    ELSE IF Head(rs).status = "failed" THEN 1 + CountLeadingFailed(Tail(rs))
    ELSE 0

get_consecutive_failures(h, job_name) ==
    CountLeadingFailed(RecentExecutions(get_by_job_name(h, job_name)))

\* cleanup_old_records(db): job_name and months_to_keep are left at their
\* defaults by both callers
IsExpired(r, job_name, clock) ==
    /\ r.job_name = job_name
    /\ r.created_at * ClockUnitDays
         < clock * ClockUnitDays - months_to_keep * DaysPerMonth

cleanup_old_records(h, job_name, clock) ==
    SelectSeq(h, LAMBDA r : ~IsExpired(r, job_name, clock))

\* --------------------------------------------------------- SchedulerCore
ImmediateId(j) == IF j = "corporate_events_scraper"
                  THEN "corporate_events_scraper_immediate"
                  ELSE "notification_processor_immediate"
ResumeId(j) == IF j = "corporate_events_scraper"
               THEN "corporate_events_scraper_resume"
               ELSE "notification_processor_resume"

\* SchedulerManager.pause_job: TRUE iff the job is registered
pause_job_ok(js, j) == j \in js
pause_job(js, pj, j) == IF pause_job_ok(js, j) THEN pj \cup {j} ELSE pj
\* SchedulerManager.resume_job
resume_job(js, pj, j) == IF j \in js THEN pj \ {j} ELSE pj
\* SchedulerManager.schedule_job_resume (replace_existing)
schedule_job_resume(js, j) == js \cup {ResumeId(j)}

\* job_name under which _record_resume_event records the marker
ResumeEventJobNameAlt(j) == j
ResumeEventJobName(j) == DefaultJobName

\* ----------------------------------------------------------- RetryExecutor
LoopContinues(rc, max_retries) == rc <= max_retries
RetriesExhaustedAlt(rc, max_retries) == rc >= max_retries
RetriesExhausted(rc, max_retries) == rc > max_retries
\* error_message = str(e) in the except branch
ExceptErrorMessageAlt(e) == ""
ExceptErrorMessage(e) == e
\* consecutive_failures >= settings.JOB_RETRY_MAX
\* wait_time = 60 * retry_count
BackoffSeconds == 60
wait_timeAlt(rc) == BackoffSeconds
wait_time(rc) == BackoffSeconds * rc

\* f"... {consecutive_failures} ...": the count is at most the scan limit
Decimal == <<"0", "1", "2", "3", "4", "5", "6", "7", "8", "9", "10">>
FormatCount(n) == Decimal[n + 1]
PauseMessage(consecutive_failures) ==
    "failed " \o FormatCount(consecutive_failures) \o " times in a row, paused, resumes in 6 hours"
BreakerTripsAlt(cf, threshold) == cf > threshold
BreakerTrips(cf, threshold) == cf >= threshold

\* ------------------------------------------------------ NotificationMatcher
\* Strings are sequences of characters.
Titles == {<<"A", "I", "c">>, <<"c", "o">>, <<"a", "i">>}
KeywordLists == {<<>>, <<<<"a", "i">>>>, <<<<"A", "i">>, <<"c">>>>,
                 <<<<"z">>>>}
Emails == {"a@x.com", "b@x.com"}
NoEmail == ""

\* str.lower()
LowerChar(c) == CASE c = "A" -> "a" [] c = "I" -> "i" [] c = "C" -> "c"
                  [] OTHER -> c
lower(str) == [i \in 1..Len(str) |-> LowerChar(str[i])]

\* the `in` operator on two strings
Contains(needle, hay) ==
    \E i \in 0..(Len(hay) - Len(needle)) :
        \A k \in 1..Len(needle) : hay[i + k] = needle[k]

KeywordMatchesAlt(keyword, event_title) == Contains(keyword, event_title)
KeywordMatches(keyword, event_title) ==
    Contains(lower(keyword), lower(event_title))

\* for keyword in user_keywords: ... append, add, break
RECURSIVE MatchOnce(_, _)
MatchOnce(user_keywords, event_title) ==
    IF user_keywords = <<>> THEN <<>>
    ELSE IF KeywordMatches(Head(user_keywords), event_title)
         THEN <<event_title>>
         ELSE MatchOnce(Tail(user_keywords), event_title)

\* for event in unprocessed_events: ...
RECURSIVE MatchedEvents(_, _)
MatchedEvents(user_keywords, evts) ==
    IF evts = <<>> THEN <<>>
    ELSE MatchOnce(user_keywords, Head(evts).title)
         \o MatchedEvents(user_keywords, Tail(evts))

MatchedIds(user_keywords, evts) ==
    {evts[i].id : i \in {k \in 1..Len(evts) :
                           MatchOnce(user_keywords, evts[k].title) # <<>>}}

SkipsSetting(user_setting) ==
    ~user_setting.is_active \/ user_setting.email_address = NoEmail

\* notifications_to_send[user_email] = matched_events on a dict that keeps
\* insertion order: the value of an existing key is replaced in place
DictSetAlt(d, key, value) == Append(d, [to |-> key, titles |-> value])
DictSet(d, key, value) ==
    IF \E i \in 1..Len(d) : d[i].to = key
    THEN [i \in 1..Len(d) |->
            IF d[i].to = key THEN [to |-> key, titles |-> value] ELSE d[i]]
    ELSE Append(d, [to |-> key, titles |-> value])

RECURSIVE Aggregate(_, _, _)
Aggregate(all_user_settings, evts, notifications_to_send) ==
    IF all_user_settings = <<>> THEN notifications_to_send
    ELSE LET user_setting == Head(all_user_settings)
             matched_events == MatchedEvents(user_setting.keywords, evts)
         IN  Aggregate(Tail(all_user_settings), evts,
                 IF SkipsSetting(user_setting) \/ matched_events = <<>>
                 THEN notifications_to_send
                 ELSE DictSet(notifications_to_send,
                              user_setting.email_address, matched_events))

ProcessedEventIds(all_user_settings, evts) ==
    UNION {MatchedIds(all_user_settings[i].keywords, evts) :
             i \in {k \in 1..Len(all_user_settings) :
                      ~SkipsSetting(all_user_settings[k])}}

Prefix(seq, n) == IF Len(seq) <= n THEN seq ELSE SubSeq(seq, 1, n)
IsUnprocessed(e) == ~e.is_processed

NoEvent == [op |-> "init", job |-> "", trigger |-> "", outcome |-> "",
            cf_evaluated |-> FALSE, invocations |-> 0, waits |-> 0,
            wait_time |-> 0, total_wait |-> 0,
            notifications |-> 0, notify_raised |-> FALSE, raised |-> "",
            record |-> 0, deleted |-> 0, returned |-> FALSE,
            propagated |-> FALSE]
Event(op, j, t) == [NoEvent EXCEPT !.op = op, !.job = j, !.trigger = t]

InFlight == {s \in Slots : pc[s] # "idle"}

TypeOK ==
    /\ nextId = Len(history) + 1 \/ nextId \in 1..(MaxRecords + 1)
    /\ now \in 0..MaxClock
    /\ JOB_RETRY_MAX \in 0..MaxRetrySetting
    /\ is_running \in BOOLEAN
    /\ paused_jobs \subseteq Jobs
    /\ resume_tasks \subseteq Jobs
    /\ \A s \in Slots : pc[s] \in {"idle", "call", "sleep"}
    /\ \A i \in 1..Len(history) : history[i].status \in Statuses
    /\ Cardinality(InFlight) <= MaxInFlight
    /\ Len(notify_settings) <= MaxSettings
    /\ Len(scraped_events) <= MaxEvents
    /\ \A i \in 1..Len(outbox) : outbox[i].to \in Emails
    /\ mark_requests \subseteq 1..MaxEvents

NoMatcherEvent == [op |-> "init", seq |-> 0, settings_token |-> FALSE,
                   fetched_events |-> FALSE, update_token |-> FALSE,
                   raised |-> FALSE, status |-> HTTP_OK]

NoResult == [status |-> "none", users_processed |-> 0,
             notifications_sent |-> 0]

\* empty tables
MatcherInit ==
    /\ notify_settings = <<>>
    /\ scraped_events = <<>>
    /\ outbox = <<>>
    /\ mark_requests = {}
    /\ mev = NoMatcherEvent
    /\ processor_result = NoResult

EngineInit(retry_settings) ==
    /\ history = <<>>
    /\ nextId = 1
    /\ now = 0
    /\ JOB_RETRY_MAX \in retry_settings
    /\ is_running = FALSE
    /\ jobs = {}
    /\ paused_jobs = {}
    /\ resume_tasks = {}
    /\ pc = [s \in Slots |-> "idle"]
    /\ execution_record = [s \in Slots |-> 0]
    /\ retry_count = [s \in Slots |-> 0]
    /\ calls = [s \in Slots |-> 0]
    /\ sleeps = [s \in Slots |-> 0]
    /\ waited = [s \in Slots |-> 0]
    /\ returns = [s \in Slots |-> 0]
    /\ failStreak = [j \in Jobs |-> 0]
    /\ breakerPaused = {}
    /\ ev = NoEvent

Init == EngineInit(0..MaxRetrySetting) /\ MatcherInit

\* SchedulerManager.start_scheduler (settings.SCHEDULER_ENABLED)
start_scheduler ==
    /\ ~is_running
    /\ is_running' = TRUE
    /\ jobs' = jobs \cup Jobs \cup {ImmediateId(j) : j \in Jobs}
    /\ ev' = Event("start_scheduler", "", "")
    /\ UNCHANGED <<history, nextId, now, JOB_RETRY_MAX, paused_jobs,
                   resume_tasks, slotVars, failStreak, breakerPaused>>
    /\ UNCHANGED matcherVars

\* execute_corporate_events_job / execute_notification_job up to the first
\* await of the unit of work.  A DateTrigger job leaves the job store when
\* it fires.
StartTick(j, t) ==
    LET s == <<j, t>>
        baseJobs == IF t = "immediate" THEN jobs \ {ImmediateId(j)} ELSE jobs
        cleaned == cleanup_old_records(history, DefaultJobName, now)
        cf == get_consecutive_failures(cleaned, j)
        start == [Event("start", j, t) EXCEPT
                    !.deleted = Len(history) - Len(cleaned)]
    IN
    /\ pc[s] = "idle"
    /\ IF is_job_paused(cleaned, j)
       THEN /\ history' = cleaned
            /\ ev' = [start EXCEPT !.outcome = "dropped"]
            /\ jobs' = baseJobs
            /\ UNCHANGED <<nextId, paused_jobs, slotVars, failStreak,
                           breakerPaused>>
       ELSE IF BreakerTrips(cf, JOB_RETRY_MAX)
       THEN \* _pause_job_due_to_failures / _pause_notification_job_due_to_failures
            /\ nextId <= MaxRecords
            /\ paused_jobs' = pause_job(jobs, paused_jobs, j)
            /\ jobs' = schedule_job_resume(baseJobs, j)
            /\ history' = create(cleaned, nextId, j, "paused", now, now,
                               PauseMessage(cf))
            /\ nextId' = nextId + 1
            /\ ev' = [start EXCEPT !.outcome = "paused", !.cf_evaluated = TRUE,
                                   !.notifications = 1, !.record = nextId]
            /\ breakerPaused' = breakerPaused \cup {j}
            /\ failStreak' = [failStreak EXCEPT ![j] = 0]
            /\ UNCHANGED slotVars
       ELSE \* _create_execution_record(db, "running")
            /\ nextId <= MaxRecords
            /\ Cardinality(InFlight) < MaxInFlight
            /\ history' = create(cleaned, nextId, j, "running", now, None,
                               "")
            /\ nextId' = nextId + 1
            /\ jobs' = baseJobs
            /\ pc' = [pc EXCEPT ![s] = "call"]
            /\ execution_record' = [execution_record EXCEPT ![s] = nextId]
            /\ retry_count' = [retry_count EXCEPT ![s] = 0]
            /\ calls' = [calls EXCEPT ![s] = 0]
            /\ sleeps' = [sleeps EXCEPT ![s] = 0]
            /\ waited' = [waited EXCEPT ![s] = 0]
            /\ returns' = [returns EXCEPT ![s] = 0]
            /\ ev' = [start EXCEPT !.outcome = "ran", !.cf_evaluated = TRUE,
                                   !.record = nextId]
            /\ UNCHANGED <<paused_jobs, failStreak, breakerPaused>>
    /\ UNCHANGED <<now, JOB_RETRY_MAX, is_running, resume_tasks>>
    /\ UNCHANGED matcherVars

\* the interval trigger registered under the job's own id (max_instances = 1)
IntervalTick(j) ==
    /\ is_running
    /\ j \in jobs
    /\ j \notin paused_jobs
    /\ StartTick(j, "interval")

\* the one-shot DateTrigger registered under "<job>_immediate"
ImmediateTick(j) ==
    /\ is_running
    /\ ImmediateId(j) \in jobs
    /\ StartTick(j, "immediate")

\* trigger_corporate_events_job / trigger_notification_job
ManualTrigger(j) == StartTick(j, "manual")

\* the handler's locals once it has returned
ReturnedAlt(f, s) == [x \in DOMAIN f |-> 0]
Returned(f, s) == [f EXCEPT ![s] = 0]

\* one iteration of the while loop of _execute_with_retry /
\* _execute_notification_with_retry: the awaited unit of work returns
AttemptSucceeds(j, t) ==
    LET s == <<j, t>> IN
    /\ pc[s] = "call"
    /\ history' = update(history, execution_record[s], "success", now, "",
                         retry_count[s])
    /\ pc' = [pc EXCEPT ![s] = "idle"]
    /\ execution_record' = Returned(execution_record, s)
    /\ retry_count' = Returned(retry_count, s)
    /\ calls' = Returned(calls, s)
    /\ sleeps' = Returned(sleeps, s)
    /\ waited' = Returned(waited, s)
    /\ returns' = Returned(returns, s)
    /\ failStreak' = [failStreak EXCEPT ![j] = 0]
    /\ ev' = [Event("attempt", j, t) EXCEPT
                !.outcome = "success", !.invocations = calls[s] + 1,
                !.returned = TRUE,
                !.waits = sleeps[s], !.total_wait = waited[s],
                !.record = execution_record[s]]
    /\ UNCHANGED <<nextId, now, JOB_RETRY_MAX, schedVars, breakerPaused>>
    /\ UNCHANGED matcherVars

\* ... or raises e; notify_raises: whether send_job_failure_notification
\* raises inside _send_failure_notification (logged there)
AttemptRaises(j, t, e, notify_raises) ==
    LET s == <<j, t>>
        rc == retry_count[s] + 1
        msg == ExceptErrorMessage(e)
        attempt == [Event("attempt", j, t) EXCEPT
                      !.invocations = calls[s] + 1,
                      !.record = execution_record[s]]
    IN
    /\ pc[s] = "call"
    /\ IF RetriesExhausted(rc, JOB_RETRY_MAX)
       THEN /\ history' = update(history, execution_record[s], "failed",
                                 now, msg, rc)
            /\ pc' = [pc EXCEPT ![s] = "idle"]
            /\ execution_record' = Returned(execution_record, s)
            /\ retry_count' = Returned(retry_count, s)
            /\ calls' = Returned(calls, s)
            /\ sleeps' = Returned(sleeps, s)
            /\ waited' = Returned(waited, s)
            /\ returns' = Returned(returns, s)
            /\ failStreak' = [failStreak EXCEPT
                                ![j] = IF @ <= MaxRetrySetting THEN @ + 1 ELSE @]
            /\ ev' = [attempt EXCEPT !.outcome = "failed",
                                     !.raised = e,
                                     !.waits = sleeps[s],
                                     !.total_wait = waited[s],
                                     !.notifications = 1,
                                     !.notify_raised = notify_raises]
       ELSE \* await asyncio.sleep(60 * retry_count)
            /\ notify_raises = FALSE
            /\ pc' = [pc EXCEPT ![s] = "sleep"]
            /\ retry_count' = [retry_count EXCEPT ![s] = rc]
            /\ calls' = [calls EXCEPT ![s] = @ + 1]
            /\ sleeps' = [sleeps EXCEPT ![s] = @ + 1]
            /\ waited' = [waited EXCEPT ![s] = @ + wait_time(rc)]
            /\ ev' = [attempt EXCEPT !.outcome = "retry",
                                     !.waits = sleeps[s] + 1,
                                     !.wait_time = wait_time(rc),
                                     !.total_wait = waited[s] + wait_time(rc)]
            /\ UNCHANGED <<history, execution_record, returns, failStreak>>
    /\ UNCHANGED <<nextId, now, JOB_RETRY_MAX, schedVars, breakerPaused>>
    /\ UNCHANGED matcherVars

\* the sleep ends and the while condition is evaluated again
Wake(j, t) ==
    LET s == <<j, t>> IN
    /\ pc[s] = "sleep"
    /\ IF LoopContinues(retry_count[s], JOB_RETRY_MAX)
       THEN /\ pc' = [pc EXCEPT ![s] = "call"]
            /\ ev' = [Event("wake", j, t) EXCEPT !.outcome = "loop"]
            /\ UNCHANGED <<execution_record, retry_count, calls, sleeps,
                           waited, returns>>
       ELSE /\ pc' = [pc EXCEPT ![s] = "idle"]
            /\ execution_record' = Returned(execution_record, s)
            /\ retry_count' = Returned(retry_count, s)
            /\ calls' = Returned(calls, s)
            /\ sleeps' = Returned(sleeps, s)
            /\ waited' = Returned(waited, s)
            /\ returns' = Returned(returns, s)
            /\ ev' = [Event("wake", j, t) EXCEPT
                        !.outcome = "exit", !.invocations = calls[s],
                        !.waits = sleeps[s], !.total_wait = waited[s],
                        !.record = execution_record[s]]
    /\ UNCHANGED <<history, nextId, now, JOB_RETRY_MAX, schedVars,
                   failStreak, breakerPaused>>
    /\ UNCHANGED matcherVars

\* stop_job: manual pause of the scraper job, no resume is scheduled
stop_job ==
    /\ IF pause_job_ok(jobs, DefaultJobName)
       THEN /\ nextId <= MaxRecords
            /\ paused_jobs' = pause_job(jobs, paused_jobs, DefaultJobName)
            /\ history' = create(history, nextId, DefaultJobName, "paused", now,
                                 now, "stopped")
            /\ nextId' = nextId + 1
            /\ ev' = [Event("stop_job", DefaultJobName, "") EXCEPT
                        !.outcome = "stopped", !.record = nextId]
       ELSE /\ ev' = [Event("stop_job", DefaultJobName, "") EXCEPT
                        !.outcome = "failed"]
            /\ UNCHANGED <<paused_jobs, history, nextId>>
    /\ UNCHANGED <<now, JOB_RETRY_MAX, is_running, jobs, resume_tasks,
                   slotVars, failStreak, breakerPaused>>
    /\ UNCHANGED matcherVars

\* SchedulerManager._resume_job_callback, fired by the "<job>_resume"
\* DateTrigger: resume_job, then create_task(_record_resume_event(job_id))
ResumeCallback(j) ==
    /\ is_running
    /\ ResumeId(j) \in jobs
    /\ jobs' = jobs \ {ResumeId(j)}
    /\ paused_jobs' = resume_job(jobs, paused_jobs, j)
    /\ resume_tasks' = resume_tasks \cup {j}
    /\ breakerPaused' = breakerPaused \ {j}
    /\ ev' = Event("resume_callback", j, "")
    /\ UNCHANGED <<history, nextId, now, JOB_RETRY_MAX, is_running, slotVars,
                   failStreak>>
    /\ UNCHANGED matcherVars

\* SchedulerManager._record_resume_event -> record_job_event(status="resumed")
RecordResumeEvent(j) ==
    /\ j \in resume_tasks
    /\ nextId <= MaxRecords
    /\ resume_tasks' = resume_tasks \ {j}
    /\ history' = create(history, nextId, ResumeEventJobName(j), "resumed", now,
                         now, "resumed")
    /\ nextId' = nextId + 1
    /\ ev' = [Event("record_resume", j, "") EXCEPT !.record = nextId]
    /\ UNCHANGED <<now, JOB_RETRY_MAX, is_running, jobs, paused_jobs,
                   slotVars, failStreak, breakerPaused>>
    /\ UNCHANGED matcherVars

\* a retention period passes between ticks; the clock starts with the first
\* record.  The one-shot triggers of a running scheduler (5 s, 15 s, 6 h) fire
\* before that
AdvanceClock ==
    /\ now < MaxClock
    /\ history # <<>>
    /\ InFlight = {}
    /\ is_running => \A j \in Jobs : {ResumeId(j), ImmediateId(j)} \cap jobs = {}
    /\ resume_tasks = {}
    /\ now' = now + 1
    /\ ev' = Event("advance_clock", "", "")
    /\ UNCHANGED <<history, nextId, JOB_RETRY_MAX, schedVars, slotVars,
                   failStreak, breakerPaused>>
    /\ UNCHANGED matcherVars

Next ==
    \/ start_scheduler
    \/ \E j \in Jobs : IntervalTick(j)
    \/ \E j \in Jobs : ImmediateTick(j)
    \/ \E j \in Jobs : ManualTrigger(j)
    \/ \E s \in Slots : AttemptSucceeds(s[1], s[2])
    \/ \E s \in Slots, e \in Errors, n \in BOOLEAN : AttemptRaises(s[1], s[2], e, n)
    \/ \E s \in Slots : Wake(s[1], s[2])
    \/ stop_job
    \/ \E j \in Jobs : ResumeCallback(j)
    \/ \E j \in Jobs : RecordResumeEvent(j)
    \/ AdvanceClock

Spec == Init /\ [][Next]_vars

\* ------------------------------------------- notification data operations
MatcherEvent(op) == [NoMatcherEvent EXCEPT !.op = op]

\* a user saves a notification setting; the row carries that user's keywords
create_notify_setting(email_address, is_active, keywords) ==
    /\ Len(notify_settings) < MaxSettings
    /\ notify_settings' = Append(notify_settings,
           [email_address |-> email_address, is_active |-> is_active,
            keywords |-> keywords])
    /\ outbox' = <<>>
    /\ mark_requests' = {}
    /\ mev' = MatcherEvent("setting")
    /\ processor_result' = NoResult
    /\ UNCHANGED <<scraped_events, engineVars>>

\* the scraper saves an event; an already stored title is returned as it is
create_or_ignore(title) ==
    /\ IF \E i \in 1..Len(scraped_events) : scraped_events[i].title = title
       THEN UNCHANGED scraped_events
       ELSE /\ Len(scraped_events) < MaxEvents
            /\ scraped_events' = Append(scraped_events,
                   [id |-> Len(scraped_events) + 1, title |-> title,
                    is_processed |-> FALSE])
    /\ outbox' = <<>>
    /\ mark_requests' = {}
    /\ mev' = MatcherEvent("scrape")
    /\ processor_result' = NoResult
    /\ UNCHANGED <<notify_settings, engineVars>>

\* PUT /scraped-events/{event_id}/processed: the crud module has no
\* update_processed_status, the call raises and the handler answers 500
mark_event_as_processedAlt(evts, event_id) ==
    [events |-> [i \in 1..Len(evts) |->
                    IF evts[i].id = event_id
                    THEN [evts[i] EXCEPT !.is_processed = TRUE] ELSE evts[i]],
     status |-> HTTP_OK]
mark_event_as_processed(evts, event_id) ==
    [events |-> evts, status |-> HTTP_ERROR]

MarkEventAsProcessed(event_id) ==
    /\ scraped_events' = mark_event_as_processed(scraped_events, event_id).events
    /\ outbox' = <<>>
    /\ mark_requests' = {}
    /\ mev' = [MatcherEvent("mark") EXCEPT
                 !.status = mark_event_as_processed(scraped_events, event_id).status]
    /\ processor_result' = NoResult
    /\ UNCHANGED <<notify_settings, engineVars>>

\* for event_id in processed_event_ids: PUT ...; failures are logged
_update_processed_eventsAlt(evts, ids) ==
    SelectSeq(evts, LAMBDA e : e.id \notin ids)
RECURSIVE _update_processed_events(_, _)
_update_processed_events(evts, ids) ==
    IF ids = {} THEN evts
    ELSE LET event_id == CHOOSE x \in ids : TRUE
         IN  _update_processed_events(
                 mark_event_as_processed(evts, event_id).events,
                 ids \ {event_id})

\* for email, event_titles in notifications_to_send.items(): try: send,
\* log an error result; except Exception: log.  Nothing leaves the loop.
DispatchResults == {"sent", "error", "raised"}
Attempt(entry, result_of) ==
    [to |-> entry.to, titles |-> entry.titles, result |-> result_of[entry.to]]
FirstRaised(d, result_of) ==
    IF \E i \in 1..Len(d) : result_of[d[i].to] = "raised"
    THEN CHOOSE i \in 1..Len(d) :
             /\ result_of[d[i].to] = "raised"
             /\ \A k \in 1..(i - 1) : result_of[d[k].to] # "raised"
    ELSE 0
_send_email_notificationsAlt(d, result_of) ==
    IF FirstRaised(d, result_of) = 0
    THEN [attempts |-> [i \in 1..Len(d) |-> Attempt(d[i], result_of)],
          raised |-> FALSE]
    ELSE [attempts |-> [i \in 1..FirstRaised(d, result_of) |->
                           Attempt(d[i], result_of)],
          raised |-> TRUE]
_send_email_notifications(d, result_of) ==
    [attempts |-> [i \in 1..Len(d) |-> Attempt(d[i], result_of)],
     raised |-> FALSE]

\* one matcher pass
process_and_notify_users(settings_token, update_token, result_of) ==
    LET all_user_settings ==
            IF settings_token THEN Prefix(notify_settings, SettingsPageLimit)
            ELSE <<>>
        unprocessed_events ==
            Prefix(SelectSeq(scraped_events, IsUnprocessed), UnprocessedPageLimit)
        notifications_to_send ==
            Aggregate(all_user_settings, unprocessed_events, <<>>)
        processed_event_ids ==
            ProcessedEventIds(all_user_settings, unprocessed_events)
        returns_early == all_user_settings = <<>> \/ unprocessed_events = <<>>
        sent == _send_email_notifications(notifications_to_send, result_of)
        skips_update == returns_early \/ sent.raised \/ ~update_token
    IN  /\ outbox' = IF returns_early THEN <<>> ELSE sent.attempts
        /\ mark_requests' = IF skips_update THEN {} ELSE processed_event_ids
        /\ scraped_events' =
               IF skips_update THEN scraped_events
               ELSE _update_processed_events(scraped_events, processed_event_ids)
        /\ mev' = [MatcherEvent("pass") EXCEPT
                     !.seq = 1 - mev.seq,
                     !.settings_token = settings_token,
                     !.fetched_events = all_user_settings # <<>>,
                     !.update_token = update_token,
                     !.raised = ~returns_early /\ sent.raised]
        /\ UNCHANGED <<notify_settings, engineVars>>

\* the notification tick's unit of work: the pass, then the result dict
\* whose counters the tick copies to scraped_count and saved_new_count
PlaceholderCount == 1
ProcessorResult(raised) ==
    IF raised THEN [NoResult EXCEPT !.status = "raised"]
    ELSE [status |-> "completed", users_processed |-> PlaceholderCount,
          notifications_sent |-> PlaceholderCount]

_call_notification_processor(settings_token, update_token, result_of) ==
    /\ process_and_notify_users(settings_token, update_token, result_of)
    /\ processor_result' = ProcessorResult(mev'.raised)

InitMatcher == EngineInit({MaxRetrySetting}) /\ MatcherInit

NextMatcher ==
    \/ \E email_address \in Emails \cup {NoEmail}, is_active \in BOOLEAN,
          keywords \in KeywordLists :
           create_notify_setting(email_address, is_active, keywords)
    \/ \E title \in Titles : create_or_ignore(title)
    \/ \E event_id \in 1..MaxEvents : MarkEventAsProcessed(event_id)
    \/ _call_notification_processor(FALSE, FALSE, [a \in Emails |-> "sent"])
    \/ \E update_token \in BOOLEAN, result_of \in [Emails -> DispatchResults] :
           _call_notification_processor(TRUE, update_token, result_of)

SpecMatcher == InitMatcher /\ [][NextMatcher]_vars

\* ------------------------------------------- history store on its own
\* Ticks that run one after the other: a record is created (running by
\* _create_execution_record, paused or resumed by record_job_event) and the
\* running record of the latest tick is updated to its terminal status.
OtherRows(h) ==
    {i \in 1..Len(h) :
        ~(h[i].job_name = DefaultJobName /\ h[i].status = "failed")}

CreateRecord(job_name, status) ==
    /\ Len(history) < MaxStoreRecords
    /\ Cardinality(OtherRows(history)) <= MaxOtherRecords
    /\ history' = create(history, nextId, job_name, status, now,
                          IF status = "running" THEN None ELSE now, "")
    /\ nextId' = nextId + 1
    /\ UNCHANGED <<now, JOB_RETRY_MAX, schedVars, slotVars, failStreak,
                   breakerPaused, ev, matcherVars>>

UpdateLatest(status, err) ==
    /\ history # <<>>
    /\ history[Len(history)].status = "running"
    /\ history' = update(history, history[Len(history)].id, status, now,
                          err, 0)
    /\ UNCHANGED <<nextId, now, JOB_RETRY_MAX, schedVars, slotVars, failStreak,
                   breakerPaused, ev, matcherVars>>

InitStore == EngineInit({MaxRetrySetting}) /\ MatcherInit

NextStore ==
    \/ \E job_name \in Jobs, status \in {"running", "paused", "resumed"} :
           CreateRecord(job_name, status)
    \/ UpdateLatest("success", "")
    \/ UpdateLatest("failed", "e1")

SpecStore == InitStore /\ [][NextStore]_vars

\* -------------------------------------------- /me/notify-settings (one per user)
\* Request fields: Unset is a field left out of the body, NullValue an
\* explicit null.  Stored rows: [user_id, notify_type, email_address,
\* is_active, keywords].
Unset == "<unset>"
NullValue == "<null>"
Blank == " "
UserIds == 1..MaxUsers
NotifyTypes == {"email", "telegram"}
AddressInputs == {NullValue, "", Blank, "bad", "a@x.com"}
KeywordInputs == {<<>>, <<<<"a", "i">>>>}
\* JSON booleans of the request body
ActiveInputs == {"true", "false"}

strip(v) == IF v = Blank THEN "" ELSE v
\* re.match(email_pattern, ...)
MatchesEmailPattern(v) == v \in Emails
Falsy(v) == v = NullValue \/ v = ""

get_by_owner(rows, owner_id) ==
    {i \in 1..Len(rows) : rows[i].user_id = owner_id}
RowOfOwner(rows, owner_id) == rows[CHOOSE i \in get_by_owner(rows, owner_id) : TRUE]

\* NotifySettingCreate: validate_notify_type, validate_email_when_email_type
CreateIsValid(notify_type, email_address) ==
    /\ notify_type # ""
    /\ notify_type = "email" =>
          /\ ~Falsy(email_address)
          /\ strip(email_address) # ""
          /\ MatchesEmailPattern(email_address)

\* NotifySettingUpdate: validate_notify_type, validate_email_address
UpdateIsValid(notify_type, email_address) ==
    /\ notify_type # ""
    /\ email_address # ""

validate_final_state(notify_type, email_address) ==
    notify_type = "email"
        => (email_address # NullValue /\ strip(email_address) # "")

\* update_data.x if update_data.x is not None else current x
FinalNotifyType(update_type, current) ==
    IF update_type \notin {Unset, NullValue} THEN update_type
    ELSE current.notify_type
FinalEmailAddress(update_address, current) ==
    IF update_address \notin {Unset, NullValue} THEN update_address
    ELSE IF ~Falsy(current.email_address) THEN current.email_address
    ELSE NullValue

\* crud update: setattr for every field that was set in the body
ApplyUpdate(row, notify_type, email_address, is_active) ==
    [row EXCEPT
        !.notify_type = IF notify_type = Unset THEN @ ELSE notify_type,
        !.email_address = IF email_address = Unset THEN @ ELSE email_address,
        !.is_active = IF is_active = Unset THEN @ ELSE is_active = "true"]

SettingsEvent(op, status) == [MatcherEvent(op) EXCEPT !.status = status]

SettingsFrame ==
    /\ outbox' = <<>>
    /\ mark_requests' = {}
    /\ processor_result' = NoResult
    /\ UNCHANGED <<scraped_events, engineVars>>

create_my_setting(user_id, notify_type, email_address, keywords) ==
    /\ IF ~CreateIsValid(notify_type, email_address)
       THEN /\ mev' = SettingsEvent("create_my_setting", 422)
            /\ UNCHANGED notify_settings
       ELSE IF get_by_owner(notify_settings, user_id) # {}
       THEN /\ mev' = SettingsEvent("create_my_setting", 409)
            /\ UNCHANGED notify_settings
       ELSE /\ mev' = SettingsEvent("create_my_setting", 201)
            /\ notify_settings' = Append(notify_settings,
                   [user_id |-> user_id, notify_type |-> notify_type,
                    email_address |-> email_address, is_active |-> TRUE,
                    keywords |-> keywords])
    /\ SettingsFrame

update_my_setting(user_id, notify_type, email_address, is_active) ==
    /\ IF ~UpdateIsValid(notify_type, email_address)
       THEN /\ mev' = SettingsEvent("update_my_setting", 422)
            /\ UNCHANGED notify_settings
       ELSE IF get_by_owner(notify_settings, user_id) = {}
       THEN /\ mev' = SettingsEvent("update_my_setting", 404)
            /\ UNCHANGED notify_settings
       ELSE LET current == RowOfOwner(notify_settings, user_id) IN
            IF ~validate_final_state(FinalNotifyType(notify_type, current),
                                     FinalEmailAddress(email_address, current))
            THEN /\ mev' = SettingsEvent("update_my_setting", 400)
                 /\ UNCHANGED notify_settings
            ELSE IF notify_type = NullValue
            THEN \* notify_type is NOT NULL: the commit raises
                 /\ mev' = SettingsEvent("update_my_setting", HTTP_ERROR)
                 /\ UNCHANGED notify_settings
            ELSE /\ mev' = SettingsEvent("update_my_setting", HTTP_OK)
                 /\ notify_settings' =
                        [i \in 1..Len(notify_settings) |->
                            IF notify_settings[i].user_id = user_id
                            THEN ApplyUpdate(notify_settings[i], notify_type,
                                             email_address, is_active)
                            ELSE notify_settings[i]]
    /\ SettingsFrame

delete_my_setting(user_id) ==
    /\ IF get_by_owner(notify_settings, user_id) = {}
       THEN /\ mev' = SettingsEvent("delete_my_setting", 404)
            /\ UNCHANGED notify_settings
       ELSE /\ mev' = SettingsEvent("delete_my_setting", 204)
            /\ notify_settings' =
                   SelectSeq(notify_settings, LAMBDA r : r.user_id # user_id)
    /\ SettingsFrame

InitSettings == EngineInit({MaxRetrySetting}) /\ MatcherInit

NextSettings ==
    \/ \E user_id \in UserIds, notify_type \in NotifyTypes \cup {""},
          email_address \in AddressInputs, keywords \in KeywordInputs :
           create_my_setting(user_id, notify_type, email_address, keywords)
    \/ \E user_id \in UserIds,
          notify_type \in NotifyTypes \cup {"", Unset, NullValue},
          email_address \in AddressInputs \cup {Unset},
          is_active \in ActiveInputs \cup {Unset} :
           update_my_setting(user_id, notify_type, email_address, is_active)
    \/ \E user_id \in UserIds : delete_my_setting(user_id)

SpecSettings == InitSettings /\ [][NextSettings]_vars

\* ------------------------------------- work items with either flag value
\* The scraped_events table as the handlers may find it: is_processed is a
\* Boolean column, so the stored flags are drawn from both values.
StoredEvents ==
    UNION {{[i \in 1..n |-> [id |-> i, title |-> ts[i], is_processed |-> fs[i]]] :
               ts \in {t \in [1..n -> Titles] :
                          \A a, b \in 1..n : a # b => t[a] # t[b]},
               fs \in [1..n -> BOOLEAN]} : n \in 0..MaxEvents}

InitEvents ==
    /\ EngineInit({MaxRetrySetting})
    /\ notify_settings = <<>>
    /\ scraped_events \in StoredEvents
    /\ outbox = <<>>
    /\ mark_requests = {}
    /\ mev = NoMatcherEvent
    /\ processor_result = NoResult

NextEvents ==
    \/ \E keywords \in KeywordLists :
           create_notify_setting("a@x.com", TRUE, keywords)
    \/ \E title \in Titles : create_or_ignore(title)
    \/ \E event_id \in 1..MaxEvents : MarkEventAsProcessed(event_id)
    \/ \E settings_token \in BOOLEAN, update_token \in BOOLEAN :
           _call_notification_processor(settings_token, update_token,
                                        [a \in Emails |-> "sent"])

SpecEvents == InitEvents /\ [][NextEvents]_vars

\* ------------------------------------------ the history store may raise
\* The unit of work returns and crud_job_execution_history.update(...,
\* status="success") raises e.  The call stands inside the try block of the
\* retry loop, so the except branch runs: retry_count += 1, then the final
\* "failed" update or the backoff sleep.  committed: db.commit() went through
\* and db.refresh() raised.  store_recovers: the update of the except branch
\* goes through; otherwise it raises too and the exception leaves the loop
\* (logged by the tick handler).
SuccessUpdateRaises(j, t, e, committed, store_recovers) ==
    LET s == <<j, t>>
        rc == retry_count[s] + 1
        msg == ExceptErrorMessage(e)
        afterTry == IF committed
                    THEN update(history, execution_record[s], "success", now,
                                "", retry_count[s])
                    ELSE history
        attempt == [Event("attempt", j, t) EXCEPT
                      !.invocations = calls[s] + 1,
                      !.record = execution_record[s],
                      !.returned = TRUE]
    IN
    /\ pc[s] = "call"
    /\ IF RetriesExhausted(rc, JOB_RETRY_MAX)
       THEN /\ history' = IF store_recovers
                          THEN update(afterTry, execution_record[s], "failed",
                                      now, msg, rc)
                          ELSE afterTry
            /\ pc' = [pc EXCEPT ![s] = "idle"]
            /\ execution_record' = Returned(execution_record, s)
            /\ retry_count' = Returned(retry_count, s)
            /\ calls' = Returned(calls, s)
            /\ sleeps' = Returned(sleeps, s)
            /\ waited' = Returned(waited, s)
            /\ returns' = Returned(returns, s)
            /\ failStreak' = [failStreak EXCEPT
                                ![j] = IF ~store_recovers THEN 0
                                       ELSE IF @ <= MaxRetrySetting THEN @ + 1
                                       ELSE @]
            /\ ev' = [attempt EXCEPT
                        !.outcome = IF store_recovers THEN "failed" ELSE "aborted",
                        !.raised = e,
                        !.waits = sleeps[s],
                        !.total_wait = waited[s],
                        !.notifications = IF store_recovers THEN 1 ELSE 0]
       ELSE /\ store_recovers
            /\ history' = afterTry
            /\ pc' = [pc EXCEPT ![s] = "sleep"]
            /\ retry_count' = [retry_count EXCEPT ![s] = rc]
            /\ calls' = [calls EXCEPT ![s] = @ + 1]
            /\ sleeps' = [sleeps EXCEPT ![s] = @ + 1]
            /\ waited' = [waited EXCEPT ![s] = @ + wait_time(rc)]
            /\ returns' = [returns EXCEPT ![s] = @ + 1]
            /\ ev' = [attempt EXCEPT !.outcome = "retry",
                                     !.waits = sleeps[s] + 1,
                                     !.wait_time = wait_time(rc),
                                     !.total_wait = waited[s] + wait_time(rc)]
            /\ UNCHANGED <<execution_record, failStreak>>
    /\ UNCHANGED <<nextId, now, JOB_RETRY_MAX, schedVars, breakerPaused>>
    /\ UNCHANGED matcherVars

\* a retry budget of 0 trips the breaker on the first tick
InitFault == EngineInit(1..MaxRetrySetting) /\ MatcherInit

\* ticks started by trigger_corporate_events_job / trigger_notification_job
NextFault ==
    \/ \E j \in Jobs : ManualTrigger(j)
    \/ \E s \in Slots : AttemptSucceeds(s[1], s[2])
    \/ \E s \in Slots, e \in Errors : AttemptRaises(s[1], s[2], e, FALSE)
    \/ \E s \in Slots, committed \in BOOLEAN, store_recovers \in BOOLEAN :
           SuccessUpdateRaises(s[1], s[2], "e1", committed, store_recovers)
    \/ \E s \in Slots : Wake(s[1], s[2])

SpecFault == InitFault /\ [][NextFault]_vars

\* --------------------------------------- a step of the tick handler raises
\* execute_corporate_events_job / execute_notification_job:
\*     db = next(get_db())
\*     try: cleanup, is_job_paused, get_consecutive_failures, pause
\*          transition or _create_execution_record + retry loop
\*     except Exception: log
\*     finally: db.close()
\* step names the call that raises.  get_db stands before the try and close
\* in the finally clause, so their exceptions leave the handler; the others
\* are caught by the except clause.  record_job_event catches its own store
\* failure inside the pause transition, after the trigger was suspended and
\* the resume scheduled.  close is taken on the tick of a paused job, which
\* returns right after is_job_paused.
HandlerSteps == {"get_db", "cleanup_old_records", "is_job_paused",
                 "get_consecutive_failures", "_create_execution_record",
                 "record_job_event", "close"}
InsideTry(step) == step \notin {"get_db", "close"}

HandlerStepRaises(j, t, step) ==
    LET s == <<j, t>>
        cleaned == cleanup_old_records(history, DefaultJobName, now)
        cf == get_consecutive_failures(cleaned, j)
        reached ==
            CASE step \in {"get_db", "cleanup_old_records", "is_job_paused"} -> TRUE
              [] step = "close" -> is_job_paused(cleaned, j)
              [] step = "get_consecutive_failures" -> ~is_job_paused(cleaned, j)
              [] step = "record_job_event" ->
                     ~is_job_paused(cleaned, j) /\ BreakerTrips(cf, JOB_RETRY_MAX)
              [] step = "_create_execution_record" ->
                     ~is_job_paused(cleaned, j) /\ ~BreakerTrips(cf, JOB_RETRY_MAX)
    IN
    /\ pc[s] = "idle"
    /\ reached
    /\ history' = IF step \in {"get_db", "cleanup_old_records"} THEN history
                  ELSE cleaned
    /\ paused_jobs' = IF step = "record_job_event"
                      THEN pause_job(jobs, paused_jobs, j) ELSE paused_jobs
    /\ jobs' = IF step = "record_job_event"
               THEN schedule_job_resume(jobs, j) ELSE jobs
    /\ ev' = [Event("start", j, t) EXCEPT
                !.outcome = "raised",
                !.raised = step,
                !.cf_evaluated = step \in {"record_job_event",
                                           "_create_execution_record"},
                !.deleted = Len(history) - Len(history'),
                !.propagated = ~InsideTry(step)]
    /\ UNCHANGED <<nextId, now, JOB_RETRY_MAX, is_running, resume_tasks,
                   slotVars, failStreak, breakerPaused>>
    /\ UNCHANGED matcherVars

NextHandlerFault ==
    \/ \E j \in Jobs : ManualTrigger(j)
    \/ \E s \in Slots : AttemptSucceeds(s[1], s[2])
    \/ \E s \in Slots, e \in Errors : AttemptRaises(s[1], s[2], e, FALSE)
    \/ \E s \in Slots : Wake(s[1], s[2])
    \/ \E j \in Jobs, step \in HandlerSteps : HandlerStepRaises(j, "manual", step)

SpecHandlerFault == Init /\ [][NextHandlerFault]_vars

\* ------------------------------------------------------------ properties
\* Independent readings of the history, used by the properties only.
JobRows(h, j) == {i \in 1..Len(h) : h[i].job_name = j}
LatestRow(h, j) == CHOOSE i \in JobRows(h, j) : \A k \in JobRows(h, j) : k <= i
LatestStatus(h, j) == IF JobRows(h, j) = {} THEN "none" ELSE h[LatestRow(h, j)].status
RunningRows(h, j) == {i \in JobRows(h, j) : h[i].status = "running"}
RowsWithId(h, id) == {i \in 1..Len(h) : h[i].id = id}
StatusOfId(h, id) ==
    IF RowsWithId(h, id) = {} THEN "none"
    ELSE h[CHOOSE i \in RowsWithId(h, id) : TRUE].status
ErrorOfId(h, id) ==
    IF RowsWithId(h, id) = {} THEN "none"
    ELSE h[CHOOSE i \in RowsWithId(h, id) : TRUE].error_message
OlderThanRetention(r, clock) ==
    (clock - r.created_at) * ClockUnitDays > 90
Retained(h, clock) ==
    SelectSeq(h, LAMBDA r : ~(r.job_name = "corporate_events_scraper"
                              /\ OlderThanRetention(r, clock)))
StartsTickOf(j) == ev'.op = "start" /\ ev'.job = j
InvokesUnitOf(j) == ev'.op = "attempt" /\ ev'.job = j

\* C1: once JOB_RETRY_MAX ticks of a job have ended failed in a row, the next
\* tick of that job pauses it instead of running, and while the job is paused
\* by the breaker (its resume callback has not fired) no tick of that job
\* invokes the unit of work or creates a running record.
C1_BreakerPausesUntilResume ==
    [][\A j \in Jobs :
        /\ (StartsTickOf(j) /\ failStreak[j] >= JOB_RETRY_MAX)
              => (ev'.outcome # "ran" /\ LatestStatus(history', j) = "paused")
        /\ (j \in breakerPaused /\ j \in breakerPaused')
              => /\ ~InvokesUnitOf(j)
                 /\ ~(StartsTickOf(j) /\ ev'.outcome = "ran")]_vars

\* C2: when the resume event of a paused job has been recorded, the latest
\* history record of that same job is the resumed marker, so the job is no
\* longer paused in the history store.
C2_ResumeMarksOwnJob ==
    ev.op = "record_resume" => LatestStatus(history, ev.job) = "resumed"

\* C3: a tick invokes the unit of work at most 1 + max_retries times; a tick
\* that ends failed made exactly 1 + max_retries invocations and max_retries
\* waits, updated its record once (to failed) and notified once; a tick that
\* ends success stops there, updated its record once (to success) and did not
\* notify.  The record stays running until that single update.
C3_RetryLadderCounts ==
    /\ \A s \in Slots :
          /\ calls[s] + (IF pc[s] = "call" THEN 1 ELSE 0) <= 1 + JOB_RETRY_MAX
          /\ sleeps[s] <= JOB_RETRY_MAX
          /\ pc[s] # "idle" => StatusOfId(history, execution_record[s]) = "running"
    /\ ev.op = "wake" => ev.outcome = "loop"
    /\ ev.op = "attempt" =>
          /\ ev.invocations <= 1 + JOB_RETRY_MAX
          /\ ev.outcome \in {"success", "failed", "retry"}
          /\ ev.outcome = "retry" =>
                /\ ev.notifications = 0
                /\ pc[<<ev.job, ev.trigger>>] = "sleep"
                /\ ev.waits = ev.invocations
          /\ ev.outcome = "failed" =>
                /\ ev.invocations = 1 + JOB_RETRY_MAX
                /\ ev.waits = JOB_RETRY_MAX
                /\ ev.notifications = 1
                /\ StatusOfId(history, ev.record) = "failed"
                /\ pc[<<ev.job, ev.trigger>>] = "idle"
          /\ ev.outcome = "success" =>
                /\ ev.notifications = 0
                /\ ev.waits = ev.invocations - 1
                /\ StatusOfId(history, ev.record) = "success"
                /\ pc[<<ev.job, ev.trigger>>] = "idle"

C3_Witness ==
    /\ ev.op = "attempt" /\ ev.outcome = "failed"
    /\ JOB_RETRY_MAX = 2 /\ ev.invocations = 3 /\ ev.waits = 2

C5_PausedTickTouchesNothing ==
    [][\A j \in Jobs :
        (StartsTickOf(j) /\ LatestStatus(history, j) = "paused")
            => /\ ev'.outcome = "dropped"
               /\ ~ev'.cf_evaluated
               /\ history' = history
               /\ pc' = pc]_vars

\* C5 amended: the handler first deletes the corporate_events_scraper records
\* older than the retention cutoff; a tick of a job whose latest record is
\* still paused after that cleanup is dropped: no unit of work, no
\* consecutive_failures evaluation, no record created or updated, and nothing
\* deleted beyond that cleanup.
C5_PausedTickOnlyCleansUp ==
    [][\A j \in Jobs :
        (StartsTickOf(j) /\ LatestStatus(Retained(history, now), j) = "paused")
            => /\ ev'.outcome = "dropped"
               /\ ~ev'.cf_evaluated
               /\ ev'.notifications = 0
               /\ history' = Retained(history, now)
               /\ nextId' = nextId
               /\ pc' = pc /\ calls' = calls]_vars

C5_Witness ==
    /\ ev.op = "start" /\ ev.outcome = "dropped" /\ ev.deleted > 0
    /\ LatestStatus(history, ev.job) = "paused"

\* C6: whatever the unit of work or the failure notifier raises, the handler
\* returns with its record in status success or failed, a failed record
\* carrying the message of the last attempt's exception; no handler that has
\* returned leaves a running record behind.
C6_ExceptionsEndInTerminalRecord ==
    /\ ev.op = "wake" => ev.outcome = "loop"
    /\ (ev.op = "attempt" /\ ev.outcome = "success")
          => StatusOfId(history, ev.record) = "success"
    /\ (ev.op = "attempt" /\ ev.outcome = "failed")
          => /\ StatusOfId(history, ev.record) = "failed"
             /\ ErrorOfId(history, ev.record) = ev.raised
             /\ ev.raised \in Errors
    /\ \A i \in 1..Len(history) :
          history[i].status = "running"
              => \E s \in Slots : pc[s] # "idle" /\ execution_record[s] = history[i].id

C6_Witness ==
    /\ ev.op = "attempt" /\ ev.outcome = "failed" /\ ev.notify_raised
    /\ ev.raised = "e2" /\ ev.invocations > 1
    /\ ErrorOfId(history, ev.record) = "e2"

\* C9: at most one running record per job_name in every reachable state.
C9_OneRunningRecordPerJob ==
    \A j \in Jobs : Cardinality(RunningRows(history, j)) <= 1

\* ------------------------------------------------- matcher pass, as stated
SameLetter(a, b) ==
    a = b \/ {a, b} \in {{"a", "A"}, {"i", "I"}, {"c", "C"}}
ContainsIgnoringCase(keyword, title) ==
    \E off \in 0..(Len(title) - Len(keyword)) :
        \A k \in 1..Len(keyword) : SameLetter(title[off + k], keyword[k])
FetchedItems == {k \in 1..Len(scraped_events) : ~scraped_events[k].is_processed}
Addressed(i) ==
    notify_settings[i].is_active /\ notify_settings[i].email_address # NoEmail
Hits(i) ==
    {k \in FetchedItems :
        \E q \in 1..Len(notify_settings[i].keywords) :
            ContainsIgnoringCase(notify_settings[i].keywords[q],
                                 scraped_events[k].title)}
Recipients == {i \in 1..Len(notify_settings) : Addressed(i) /\ Hits(i) # {}}
NthHit(i, n) == CHOOSE k \in Hits(i) : Cardinality({m \in Hits(i) : m <= k}) = n
HitTitles(i) ==
    [n \in 1..Cardinality(Hits(i)) |-> scraped_events[NthHit(i, n)].title]
PassWithTokens == mev.op = "pass" /\ mev.settings_token /\ mev.update_token

\* C7: a matcher pass that directly follows a matcher pass (nothing added or
\* changed in between) dispatches no notification, since the first pass has
\* marked every item it matched as processed.
C7_SecondPassDispatchesNothing ==
    [][(PassWithTokens /\ mev'.op = "pass") => outbox' = <<>>]_vars

NthNewest(h, j, m) ==
    CHOOSE i \in JobRows(h, j) :
        Cardinality({k \in JobRows(h, j) : k >= i}) = m
Scanned(h, j) ==
    IF Cardinality(JobRows(h, j)) < 10 THEN Cardinality(JobRows(h, j)) ELSE 10

\* C10: consecutive_failures(job) is the number of failed records at the head
\* of that job's history taken newest first, up to the first record that is
\* not failed, looking at the 10 most recent records of that job only and at
\* no record of another job; it is 0 when the latest record is success,
\* running, paused or resumed.
C10_ConsecutiveFailures ==
    \A j \in Jobs :
        LET cf == get_consecutive_failures(history, j)
        IN  /\ cf \in 0..Scanned(history, j)
            /\ \A m \in 1..cf : history[NthNewest(history, j, m)].status = "failed"
            /\ cf < Scanned(history, j) =>
                   history[NthNewest(history, j, cf + 1)].status # "failed"
            /\ LatestStatus(history, j) \in
                   {"success", "running", "paused", "resumed"} => cf = 0

C10_Witness ==
    /\ Cardinality(JobRows(history, DefaultJobName)) > 10
    /\ \A i \in JobRows(history, DefaultJobName) : history[i].status = "failed"
    /\ get_consecutive_failures(history, DefaultJobName) = 10

\* ------------------------------------------------------ dispatch failures
RecipientAddresses == {notify_settings[i].email_address : i \in Recipients}
AttemptsTo(a) == {n \in 1..Len(outbox) : outbox[n].to = a}
FailedAddresses ==
    {outbox[n].to : n \in {k \in 1..Len(outbox) : outbox[k].result # "sent"}}

\* C11: whichever recipients' dispatches fail (error result or exception),
\* the pass attempts every recipient exactly once, a failed one included,
\* requests mark-processed for every matched item, also those matched only by
\* failed recipients, and returns without raising.
C11_DispatchFailuresAreIsolated ==
    PassWithTokens =>
        /\ \A a \in RecipientAddresses : Cardinality(AttemptsTo(a)) = 1
        /\ \A n \in 1..Len(outbox) : outbox[n].to \in RecipientAddresses
        /\ mark_requests = {scraped_events[k].id :
                               k \in UNION {Hits(i) : i \in Recipients}}
        /\ ~mev.raised

C11_Witness ==
    /\ PassWithTokens
    /\ Len(outbox) = 2
    /\ outbox[1].result = "raised" /\ outbox[2].result = "error"
    /\ mark_requests # {}
    /\ \E k \in FetchedItems :
          /\ \E i \in Recipients : k \in Hits(i)
          /\ \A i \in Recipients :
                k \in Hits(i) => notify_settings[i].email_address \in FailedAddresses

\* ------------------------------------------------------- short circuits
\* C12: with no subscription the pass fetches no work item; with no
\* subscription or no unprocessed work item it dispatches nothing and marks
\* nothing; in both cases the notification tick gets a result whose counters
\* (users processed, notifications sent) are 0.
C12_ShortCircuitZeroCounters ==
    (mev.op = "pass" /\ (notify_settings = <<>> \/ FetchedItems = {})) =>
        /\ notify_settings = <<>> => ~mev.fetched_events
        /\ outbox = <<>>
        /\ mark_requests = {}
        /\ processor_result.status = "completed"
        /\ processor_result.users_processed = 0
        /\ processor_result.notifications_sent = 0

\* ------------------------------------------------- whose records a job touches
KeptFor(h, j, clock) ==
    SelectSeq(h, LAMBDA r : ~(r.job_name = j /\ OlderThanRetention(r, clock)))
RowsOfOthers(h, j) == SelectSeq(h, LAMBDA r : r.job_name # j)

\* C13: the cleanup at the start of a tick of job J deletes exactly the
\* records of J older than the retention cutoff and counts them; records of J
\* inside the window and all records of the other job stay; for ticks of
\* notification_processor as for ticks of corporate_events_scraper.
C13_CleanupDeletesOwnExpiredRecords ==
    [][\A j \in Jobs :
        StartsTickOf(j) =>
            /\ ev'.deleted = Len(history) - Len(KeptFor(history, j, now))
            /\ Len(history') >= Len(KeptFor(history, j, now))
            /\ SubSeq(history', 1, Len(KeptFor(history, j, now)))
                   = KeptFor(history, j, now)]_vars

\* C18: a step taken on behalf of job J (tick start with its cleanup, running
\* record, terminal update, paused marker, resumed marker) creates, updates
\* and deletes records of J only.
C18_JobsTouchOwnRecordsOnly ==
    [][\A j \in Jobs :
        (ev'.job = j /\ ev'.op \in {"start", "attempt", "wake", "record_resume"})
            => RowsOfOthers(history', j) = RowsOfOthers(history, j)]_vars

\* ------------------------------------------------------- record lifecycle
Ids(h) == {h[i].id : i \in 1..Len(h)}
RowOfId(h, id) == h[CHOOSE i \in RowsWithId(h, id) : TRUE]

\* C14: a record changes only once, from running to success or failed; a
\* success, failed, paused or resumed record is never modified; paused and
\* resumed records are created as markers (completed_at set, retry_count 0)
\* and never come from updating a running record.
C14_RecordLifecycle ==
    [][/\ \A id \in Ids(history) \cap Ids(history') :
            RowOfId(history', id) # RowOfId(history, id)
                => /\ RowOfId(history, id).status = "running"
                   /\ RowOfId(history', id).status \in {"success", "failed"}
       /\ \A id \in Ids(history') \ Ids(history) :
            /\ RowOfId(history', id).status \in {"running", "paused", "resumed"}
            /\ RowOfId(history', id).status \in {"paused", "resumed"}
                => /\ RowOfId(history', id).completed_at # None
                   /\ RowOfId(history', id).retry_count = 0]_vars

C14_Witness ==
    /\ ev.op = "start" /\ ev.outcome = "paused"
    /\ StatusOfId(history, ev.record) = "paused"
    /\ RowOfId(history, ev.record).completed_at # None
    /\ \E id \in Ids(history) :
          /\ RowOfId(history, id).status = "failed"
          /\ RowOfId(history, id).retry_count > 0
          /\ RowOfId(history, id).job_name = ev.job

\* ---------------------------------------------------------------- backoff
\* C15: the wait before the n-th retry of a tick is 60*n seconds; a tick that
\* exhausts its retries has waited 60*max_retries*(max_retries+1)/2 seconds in
\* all; no wait follows the final failed attempt or a successful attempt.
C15_LinearBackoff ==
    /\ \A s \in Slots : waited[s] = 30 * sleeps[s] * (sleeps[s] + 1)
    /\ ev.op = "attempt" =>
          /\ ev.outcome = "retry" =>
                /\ ev.waits \in 1..JOB_RETRY_MAX
                /\ ev.wait_time = 60 * ev.waits
          /\ ev.outcome = "failed" =>
                /\ ev.wait_time = 0
                /\ ev.total_wait = (60 * JOB_RETRY_MAX * (JOB_RETRY_MAX + 1)) \div 2
                /\ pc[<<ev.job, ev.trigger>>] = "idle"
          /\ ev.outcome = "success" =>
                /\ ev.wait_time = 0
                /\ ev.total_wait = (60 * ev.waits * (ev.waits + 1)) \div 2
                /\ pc[<<ev.job, ev.trigger>>] = "idle"

C15_Witness ==
    /\ ev.op = "attempt" /\ ev.outcome = "failed"
    /\ JOB_RETRY_MAX = 2 /\ ev.waits = 2 /\ ev.total_wait = 180

\* ------------------------------------------------------ stored settings
\* C16: after any sequence of creates and updates, every stored setting of
\* notify_type "email" has a non-empty email_address; a request that would
\* leave an email-type setting with a null, empty or blank address (an update
\* setting email_address to null included) is rejected without changing it.
C16_EmailSettingHasAddress ==
    \A i \in 1..Len(notify_settings) :
        notify_settings[i].notify_type = "email"
            => notify_settings[i].email_address \notin {NullValue, "", Blank}

\* --------------------------------------------------- is_processed flag
\* C17: under scraper runs (create_or_ignore on a stored title included),
\* matcher passes and mark-processed calls, a stored item whose is_processed
\* is true stays processed, and a matcher pass changes nothing of the stored
\* items except turning is_processed from false to true.
C17_ProcessedFlagIsMonotonic ==
    [][/\ Len(scraped_events') >= Len(scraped_events)
       /\ \A k \in 1..Len(scraped_events) :
              scraped_events[k].is_processed => scraped_events'[k].is_processed
       /\ mev'.op = "pass" =>
              /\ Len(scraped_events') = Len(scraped_events)
              /\ \A k \in 1..Len(scraped_events) :
                     [scraped_events'[k] EXCEPT
                         !.is_processed = scraped_events[k].is_processed]
                         = scraped_events[k]]_vars

\* a pass that asked for its matched items to be marked, with a processed
\* item in the table
C17_Witness ==
    /\ mev.op = "pass"
    /\ mark_requests # {}
    /\ \E k \in 1..Len(scraped_events) : scraped_events[k].is_processed
    /\ \E k \in 1..Len(scraped_events) : scraped_events[k].id \in mark_requests

\* ------------------------------------------------------ pause and resume
\* C19: whenever the latest history record of a job has status paused, a
\* resume for that job is pending in the scheduler (its "<job>_resume" trigger
\* is scheduled, or its resume event is about to be recorded), so that every
\* pause, by the breaker or by stop_job, is followed by a resumed marker.
C19_PausedHasPendingResume ==
    \A j \in Jobs :
        LatestStatus(history, j) = "paused"
            => (ResumeId(j) \in jobs \/ j \in resume_tasks)

\* --------------------------------------------- store failure after success
\* C20: within one tick, once the unit of work has returned it is not invoked
\* again, even if the history-store update that records the success raises;
\* and a tick whose unit of work returned is never recorded as failed.
C20_SuccessfulBodyRunsOnce ==
    [][/\ \A s \in Slots :
              returns[s] > 0
                  => ~(ev'.op = "attempt" /\ ev'.job = s[1] /\ ev'.trigger = s[2])
       /\ (ev'.op = "attempt" /\ ev'.returned)
              => StatusOfId(history', ev'.record) # "failed"]_vars

\* ------------------------------------------------- matched items get marked
\* C21: an unprocessed item whose title matches a keyword of an active,
\* addressed subscription is fetched, notified and marked processed by a pass
\* (each pass fetches the first 100 unprocessed items): when the table holds no
\* more than one page, no such item is left unprocessed by a complete pass.
C21_MatchedItemsGetProcessed ==
    (PassWithTokens /\ Len(scraped_events) <= UnprocessedPageLimit) =>
        \A i \in 1..Len(notify_settings) : Addressed(i) => Hits(i) = {}

\* ------------------------------------------------------ stored retry_count
\* C22: the retry_count stored in the terminal record of a tick is the number
\* of invocations of the unit of work in that tick minus one, and lies in
\* 0..max_retries, for success and for failed records.
C22_RetryCountIsRetriesConsumed ==
    (/\ ev.op = "attempt"
     /\ ev.outcome \in {"success", "failed"}
     /\ RowsWithId(history, ev.record) # {}) =>
        /\ RowOfId(history, ev.record).retry_count = ev.invocations - 1
        /\ RowOfId(history, ev.record).retry_count \in 0..JOB_RETRY_MAX

\* ------------------------------------------------- the breaker's transition
\* C23: a tick start of a job that is not paused and observes
\* consecutive_failures >= failure_threshold suspends the job's trigger,
\* leaves one pending resume for the job (a repeated transition replaces it),
\* writes one paused marker for that job whose message carries the failure
\* count, and notifies once; it does not invoke the unit of work and creates
\* no running record.
ObservedFailures(j) == get_consecutive_failures(Retained(history, now), j)
ListedFor(i, k) ==
    \E n \in 1..Len(outbox) :
        /\ outbox[n].to = notify_settings[i].email_address
        /\ \E q \in 1..Len(outbox[n].titles) :
               outbox[n].titles[q] = scraped_events[k].title
C24_MarkedItemsWereDispatched ==
    PassWithTokens =>
        /\ \A k \in FetchedItems :
              scraped_events[k].id \in mark_requests =>
                  \A i \in Recipients : k \in Hits(i) => ListedFor(i, k)
        /\ \A a \in Emails :
              Cardinality({n \in 1..Len(outbox) : outbox[n].to = a}) <= 1

\* ------------------------------------------------ no work while paused
\* C25: from the moment the paused marker of job J is its latest record (by
\* stop_job or by the breaker) until J is resumed, the unit of work of J is
\* not invoked, the remaining attempts of a tick of J that was in its backoff
\* wait when the pause happened included.
BeginsInvocation(s) == pc[s] # "call" /\ pc'[s] = "call"
C25_NoInvocationWhilePaused ==
    [][\A s \in Slots :
        (LatestStatus(history, s[1]) = "paused" /\ s[1] \in paused_jobs)
            => ~BeginsInvocation(s)]_vars

\* ------------------------------------------------ the two paused indicators
\* C26: whenever no pause or resume transition is in progress,
\* SchedulerManager.is_job_paused(job) (membership in _paused_jobs) agrees with
\* the history store's is_job_paused(job) (the job's latest record is paused),
\* also when pause_job returned False and after the resume callback has run.
C26_PausedIndicatorsAgree ==
    resume_tasks = {} =>
        \A j \in Jobs : (j \in paused_jobs) <=> (LatestStatus(history, j) = "paused")

\* ------------------------------------------------ a retry budget of zero
\* C27: for every JOB_RETRY_MAX >= 0, a tick of a job that is not paused and
\* whose latest record is not failed invokes the unit of work; with
\* JOB_RETRY_MAX = 0 it is not turned into a pause.
C27_HealthyTickRuns ==
    [][\A j \in Jobs :
        (/\ StartsTickOf(j)
         /\ LatestStatus(Retained(history, now), j) \notin {"paused", "failed"})
            => /\ ev'.outcome = "ran"
               /\ pc'[<<j, ev'.trigger>>] = "call"
               /\ LatestStatus(history', j) # "paused"]_vars

\* ------------------------------------------- failures of the matcher's sources
\* C28: a notification pass in which the auth-token request (and with it the
\* subscription source) fails does not return normally to the tick: the
\* failure is raised out of the matcher, so that the retry ladder retries it
\* and the tick is not recorded as success.
C28_SourceFailuresAreRaised ==
    (mev.op = "pass" /\ ~mev.settings_token) => processor_result.status = "raised"

\* ------------------------------------------ exceptions stay in the handler
\* C29: when a step of a tick handler other than the unit of work raises (a
\* history-store read or write, obtaining or closing the database session, the
\* pause transition), the exception does not leave execute_corporate_events_job
\* or execute_notification_job.
C29_HandlerNeverRaises ==
    ev.op = "start" => ~ev.propagated

\* ------------------------------------------------- ticks of different jobs
\* C30: while a tick of one job waits in a retry backoff, a tick of another
\* job can start, run its unit of work and write its terminal record before
\* the first job's next attempt; no step of the other job changes the waiting
\* tick's retry_count, its counters, its execution record or that record's
\* row (start time included), and the waiting tick is not held up by it.
C30_InterleavedTickLeavesRetryStateAlone ==
    [][\A s \in Slots :
        (pc[s] = "sleep" /\ ev'.job \in Jobs \ {s[1]})
            => /\ pc'[s] = "sleep"
               /\ retry_count'[s] = retry_count[s]
               /\ execution_record'[s] = execution_record[s]
               /\ calls'[s] = calls[s]
               /\ sleeps'[s] = sleeps[s]
               /\ waited'[s] = waited[s]
               /\ RowsWithId(history', execution_record[s]) # {}
               /\ RowOfId(history', execution_record[s])
                      = RowOfId(history, execution_record[s])]_vars

\* the other job's tick started after the waiting tick, ran and has just
\* written its terminal record, the first tick still being in its backoff
C30_Witness ==
    /\ ev.op = "attempt"
    /\ ev.outcome \in {"success", "failed"}
    /\ StatusOfId(history, ev.record) = ev.outcome
    /\ \E s \in Slots :
          /\ s[1] # ev.job
          /\ pc[s] = "sleep"
          /\ retry_count[s] >= 1
          /\ execution_record[s] < ev.record
          /\ StatusOfId(history, execution_record[s]) = "running"

====
